---- MODULE Spec2Model ----
(***************************************************************************)
(* Model of python/lsst/obs/lsst/translators/lsst.py:                      *)
(*   - compute_detector_exposure_id_generic, a pure function, applied to   *)
(*     inputs drawn from bounded sets (SpecEncoder);                       *)
(*   - read_detector_ids, modelled statement by statement over a small     *)
(*     file system holding YAML policy documents (SpecReader).             *)
(* Python strings are sequences of one-character strings.                  *)
(***************************************************************************)
EXTENDS Integers, Sequences, FiniteSets, TLC

\* state of the encoder's caller: the arguments of the current call, its
\* outcome, and the previous call with its outcome
VARIABLES max_num, mode, exposure_id, detector_num, outcome, prev

\* state of read_detector_ids and its environment
VARIABLES fs, obs_lsst_packageDir, pc, policyFile, file, openHandles,
          pending, camera, mapping, todo, heap, result, raised, held

encVars == <<max_num, mode, exposure_id, detector_num, outcome, prev>>

readerVars == <<fs, obs_lsst_packageDir, pc, policyFile, file, openHandles,
                pending, camera, mapping, todo, heap, result, raised, held>>

vars == <<encVars, readerVars>>

\* ------------------------------------------------------------------ bounds
MaxExposure == 2
MaxDetector == 2
MaxId == 2

\* default value of the max_num parameter
DefaultMaxNum == 1000

ExposureIds == (-1 .. MaxExposure) \cup {10, 11, 5000}
DetectorNums == (-1 .. MaxDetector) \cup {5, 10, 999, DefaultMaxNum}
MaxNums == {1, 10, 12, 100, DefaultMaxNum}
Modes == {"concat", "multiply", "bogus"}

\* ------------------------------------------------- Python string helpers
DigitChars == <<"0", "1", "2", "3", "4", "5", "6", "7", "8", "9">>

IsDigit(c) == \E k \in 1..10 : DigitChars[k] = c

DigitVal(c) == (CHOOSE k \in 1..10 : DigitChars[k] = c) - 1

RECURSIVE NatStr(_)
NatStr(n) == IF n < 10 THEN <<DigitChars[n + 1]>>
             ELSE NatStr(n \div 10) \o <<DigitChars[(n % 10) + 1]>>

\* str(n) / f"{n}" for an int
Str(n) == IF n < 0 THEN <<"-">> \o NatStr(0 - n) ELSE NatStr(n)

Zeros(k) == [i \in 1..k |-> "0"]

ZeroPadRight(n, width) ==
    LET s == Str(n)
    IN  IF Len(s) >= width THEN s ELSE s \o Zeros(width - Len(s))

\* f"{n:0{width}d}": sign first, then zeros, then the digits; never truncates
ZeroPad(n, width) ==
    LET body == NatStr(IF n < 0 THEN 0 - n ELSE n)
        sign == IF n < 0 THEN <<"-">> ELSE <<>>
        fill == width - Len(sign) - Len(body)
    IN  sign \o Zeros(IF fill > 0 THEN fill ELSE 0) \o body

RECURSIVE DigitsValue(_)
DigitsValue(s) == IF s = <<>> THEN 0
                  ELSE DigitsValue(SubSeq(s, 1, Len(s) - 1)) * 10 + DigitVal(s[Len(s)])

AllDigits(s) == s # <<>> /\ \A i \in 1..Len(s) : IsDigit(s[i])

\* int(s) for a str: optional sign followed by one or more digits,
\* anything else raises ValueError
ParseInt(s) ==
    IF AllDigits(s) THEN [ok |-> TRUE, v |-> DigitsValue(s)]
    ELSE IF s # <<>> /\ s[1] = "-" /\ AllDigits(Tail(s))
         THEN [ok |-> TRUE, v |-> 0 - DigitsValue(Tail(s))]
         ELSE [ok |-> FALSE, v |-> 0]

\* ------------------------------------------------------------- outcomes
NoOutcome == [kind |-> "none", v |-> 0, err |-> "none"]
Returned(x) == [kind |-> "value", v |-> x, err |-> "none"]
Raised(e) == [kind |-> "error", v |-> 0, err |-> e]

\* ------------------------------- compute_detector_exposure_id_generic
DetectorTooLarge(d, m) == d >= m

NpadShort(m) == Len(Str(m)) - 1

Npad(m) == Len(Str(m))

ConcatIdPadRight(e, d, m) == ParseInt(Str(e) \o ZeroPadRight(d, Npad(m)))

ConcatId(e, d, m) == ParseInt(Str(e) \o ZeroPad(d, Npad(m)))

MultiplyIdSwapped(e, d, m) == m * d + e

MultiplyId(e, d, m) == m * e + d

ComputeDefaulting(e, d, m, md) ==
    IF DetectorTooLarge(d, m) THEN Raised("detector_num >= max_num")
    ELSE IF md = "concat"
         THEN LET r == ConcatId(e, d, m)
              IN  IF r.ok THEN Returned(r.v) ELSE Raised("invalid literal for int()")
         ELSE Returned(MultiplyId(e, d, m))

compute_detector_exposure_id_generic(e, d, m, md) ==
    IF DetectorTooLarge(d, m) THEN Raised("detector_num >= max_num")
    ELSE IF md = "concat"
         THEN LET r == ConcatId(e, d, m)
              IN  IF r.ok THEN Returned(r.v) ELSE Raised("invalid literal for int()")
         ELSE IF md = "multiply"
              THEN Returned(MultiplyId(e, d, m))
              ELSE Raised("mode not understood")

\* ------------------------------------------------ policy documents (YAML)
DetectorNames == {"R01_S00", "R01_S01"}

IntScalar(k) == [t |-> "int", v |-> k, s |-> <<>>]
StrScalar(str) == [t |-> "str", v |-> 0, s |-> str]

Serial == StrScalar(<<"E", "2", "V">>)

\* detector records: with an integer id, with an id and another field, with
\* an id written as a string, with a string id that is no number, without id
GoodRecords ==
    {[id |-> IntScalar(k)] : k \in 0..MaxId}
      \cup {[id |-> IntScalar(1), serial |-> Serial],
            [id |-> StrScalar(<<"0", "7">>)]}

DetectorRecords ==
    GoodRecords \cup {[id |-> StrScalar(<<"x">>)], [serial |-> Serial]}

CCDMaps == UNION {[S -> DetectorRecords] : S \in SUBSET DetectorNames}

Absent == [kind |-> "absent"]
Malformed == [kind |-> "malformed"]
NullDoc == [kind |-> "yaml", top |-> [t |-> "null"]]
NoCCDsDoc == [kind |-> "yaml", top |-> [t |-> "map", m |-> [name |-> StrScalar(<<"x">>)]]]
CameraDoc(ccds) ==
    [kind |-> "yaml",
     top |-> [t |-> "map", m |-> [name |-> StrScalar(<<"x">>), CCDs |-> ccds]]]

Contents == {Absent, Malformed, NullDoc, NoCCDsDoc} \cup {CameraDoc(c) : c \in CCDMaps}

PackageDir == "/opt/lsst/obs_lsst"
MainPolicy == "policy/imsim.yaml"
OtherPolicy == "policy/phosim.yaml"
PolicyFiles == {MainPolicy, OtherPolicy}

\* os.path.join(obs_lsst_packageDir, policyFile) for a relative policyFile
Join(dir, rel) == <<dir, rel>>

Paths == {Join(PackageDir, f) : f \in PolicyFiles}

\* the second policy file is either missing or holds one fixed camera
ContentsOf(path) ==
    IF path = Join(PackageDir, MainPolicy) THEN Contents
    ELSE {Absent, CameraDoc([n \in {"R01_S00"} |-> [id |-> IntScalar(0)]])}

\* ------------------------------------------------------- read_detector_ids
None == "None"
NoRef == 0
ObjIds == {1, 2}
EmptyDict == [n \in {} |-> 0]
FreeCell == [live |-> FALSE, d |-> EmptyDict]
NotHeld == [ref |-> NoRef, snap |-> EmptyDict]

\* int(x) of a YAML scalar
IntOf(x) == IF x.t = "int" THEN [ok |-> TRUE, v |-> x.v] ELSE ParseInt(x.s)

IdLookupDefaulting(rec) ==
    IF "id" \in DOMAIN rec THEN [ok |-> TRUE, x |-> rec["id"]]
    ELSE [ok |-> TRUE, x |-> IntScalar(0)]

\* value["id"]: KeyError when the record has no "id"
IdLookup(rec) ==
    IF "id" \in DOMAIN rec THEN [ok |-> TRUE, x |-> rec["id"]]
    ELSE [ok |-> FALSE, x |-> IntScalar(0)]

StoreItemRebuild(d, ccd, v) == [n \in {ccd} |-> v]

\* mapping[ccd] = v
StoreItem(d, ccd, v) ==
    [n \in DOMAIN d \cup {ccd} |-> IF n = ccd THEN v ELSE d[n]]

ReleasedUnlessRaising(handles, f) == IF pending # None THEN handles ELSE handles \ {f}

\* leaving the with block closes the handle, exception pending or not
Released(handles, f) == handles \ {f}

MinFree(h) == CHOOSE o \in ObjIds : ~h[o].live /\ \A q \in ObjIds : ~h[q].live => o <= q

AllocDictShared(h) ==
    IF held.ref # NoRef THEN [ref |-> held.ref, heap |-> h]
    ELSE [ref |-> MinFree(h),
          heap |-> [h EXCEPT ![MinFree(h)] = [live |-> TRUE, d |-> EmptyDict]]]

\* mapping = {}: a new dict object on every call
AllocDict(h) ==
    [ref |-> MinFree(h),
     heap |-> [h EXCEPT ![MinFree(h)] = [live |-> TRUE, d |-> EmptyDict]]]

Free(h, o) == IF o = NoRef THEN h ELSE [h EXCEPT ![o] = FreeCell]

frame == <<fs, obs_lsst_packageDir>>

\* the environment rewrites, damages or removes a policy file between calls
ChangeFile ==
    /\ pc = "idle"
    /\ \E p \in Paths : \E c \in ContentsOf(p) :
         /\ c # fs[p]
         /\ fs' = [fs EXCEPT ![p] = c]
    /\ UNCHANGED <<obs_lsst_packageDir, pc, policyFile, file, openHandles, pending,
                   camera, mapping, todo, heap, result, raised, held>>

\* call and line 70: file = os.path.join(obs_lsst_packageDir, policyFile)
Call ==
    /\ pc = "idle"
    /\ \E p \in PolicyFiles :
         /\ policyFile' = p
         /\ file' = Join(obs_lsst_packageDir, p)
    /\ pc' = "open"
    /\ UNCHANGED <<frame, openHandles, pending, camera, mapping, todo, heap,
                   result, raised, held>>

\* line 71: open(file)
Open ==
    /\ pc = "open"
    /\ IF fs[file] = Absent
       THEN /\ pc' = "raised"
            /\ raised' = "FileNotFoundError"
            /\ UNCHANGED openHandles
       ELSE /\ pc' = "load"
            /\ openHandles' = openHandles \cup {file}
            /\ UNCHANGED raised
    /\ UNCHANGED <<frame, policyFile, file, pending, camera, mapping, todo, heap,
                   result, held>>

\* line 73: camera = yaml.load(fh, Loader=yaml.CLoader)
Load ==
    /\ pc = "load"
    /\ IF fs[file] = Malformed
       THEN /\ pending' = "YAMLError"
            /\ UNCHANGED camera
       ELSE /\ camera' = fs[file].top
            /\ UNCHANGED pending
    /\ pc' = "exit_with"
    /\ UNCHANGED <<frame, policyFile, file, openHandles, mapping, todo, heap,
                   result, raised, held>>

\* line 71, leaving the with block: the handle is closed, a pending
\* exception goes on to the caller
ExitWith ==
    /\ pc = "exit_with"
    /\ openHandles' = Released(openHandles, file)
    /\ IF pending # None
       THEN /\ pc' = "raised"
            /\ raised' = pending
       ELSE /\ pc' = "new_mapping"
            /\ UNCHANGED raised
    /\ pending' = None
    /\ UNCHANGED <<frame, policyFile, file, camera, mapping, todo, heap, result, held>>

\* line 75: mapping = {}
NewMapping ==
    /\ pc = "new_mapping"
    /\ mapping' = AllocDict(heap).ref
    /\ heap' = AllocDict(heap).heap
    /\ pc' = "items"
    /\ UNCHANGED <<frame, policyFile, file, openHandles, pending, camera, todo,
                   result, raised, held>>

\* an exception leaves the function: the locals go, and with them the
\* dict only the local mapping referred to
Throw(e) ==
    /\ pc' = "raised"
    /\ raised' = e
    /\ heap' = Free(heap, mapping)
    /\ mapping' = NoRef
    /\ todo' = {}
    /\ camera' = None

\* line 76: camera["CCDs"].items()
Items ==
    /\ pc = "items"
    /\ IF camera.t # "map" THEN Throw("TypeError")
       ELSE IF "CCDs" \notin DOMAIN camera.m THEN Throw("KeyError")
       ELSE /\ todo' = DOMAIN camera.m["CCDs"]
            /\ pc' = "loop"
            /\ UNCHANGED <<camera, mapping, heap, raised>>
    /\ UNCHANGED <<frame, policyFile, file, openHandles, pending, result, held>>

\* lines 76-77, one iteration: mapping[ccd] = int(value["id"])
LoopItem ==
    /\ pc = "loop"
    /\ \E ccd \in todo :
         LET value == camera.m["CCDs"][ccd]
             got == IdLookup(value)
         IN  IF ~got.ok THEN Throw("KeyError")
             ELSE IF ~IntOf(got.x).ok THEN Throw("ValueError")
             ELSE /\ heap' = [heap EXCEPT ![mapping].d = StoreItem(@, ccd, IntOf(got.x).v)]
                  /\ todo' = todo \ {ccd}
                  /\ UNCHANGED <<pc, camera, mapping, raised>>
    /\ UNCHANGED <<frame, policyFile, file, openHandles, pending, result, held>>

\* line 79: return mapping
Return ==
    /\ pc = "loop"
    /\ todo = {}
    /\ result' = mapping
    /\ mapping' = NoRef
    /\ camera' = None
    /\ pc' = "returned"
    /\ UNCHANGED <<frame, policyFile, file, openHandles, pending, todo, heap,
                   raised, held>>

\* the caller takes the outcome; a returned mapping replaces the one it held
Collect ==
    /\ pc \in {"returned", "raised"}
    /\ IF pc = "returned"
       THEN /\ held' = [ref |-> result, snap |-> heap[result].d]
            /\ heap' = IF held.ref = result THEN heap ELSE Free(heap, held.ref)
       ELSE UNCHANGED <<held, heap>>
    /\ result' = NoRef
    /\ raised' = None
    /\ policyFile' = None
    /\ file' = None
    /\ pc' = "idle"
    /\ UNCHANGED <<frame, openHandles, pending, camera, mapping, todo>>

ReaderNext ==
    \/ ChangeFile /\ UNCHANGED encVars
    \/ Call /\ UNCHANGED encVars
    \/ Open /\ UNCHANGED encVars
    \/ Load /\ UNCHANGED encVars
    \/ ExitWith /\ UNCHANGED encVars
    \/ NewMapping /\ UNCHANGED encVars
    \/ Items /\ UNCHANGED encVars
    \/ LoopItem /\ UNCHANGED encVars
    \/ Return /\ UNCHANGED encVars
    \/ Collect /\ UNCHANGED encVars

\* ------------------------------------------------------ encoder's caller
NoCall == [e |-> 0, d |-> 0, out |-> NoOutcome]

\* the function runs on the current arguments
Compute ==
    /\ outcome.kind = "none"
    /\ outcome' = compute_detector_exposure_id_generic(exposure_id, detector_num, max_num, mode)
    /\ UNCHANGED <<max_num, mode, exposure_id, detector_num, prev>>

\* the caller keeps the last call and supplies the next pair of arguments
NextArgs ==
    /\ outcome.kind # "none"
    /\ \E e \in ExposureIds, d \in DetectorNums :
         /\ exposure_id' = e
         /\ detector_num' = d
    /\ prev' = [e |-> exposure_id, d |-> detector_num, out |-> outcome]
    /\ outcome' = NoOutcome
    /\ UNCHANGED <<max_num, mode>>

EncNext ==
    \/ Compute /\ UNCHANGED readerVars
    \/ NextArgs /\ UNCHANGED readerVars

\* the policy files of a stock installation: the camera with two detectors
StockFs ==
    [p \in Paths |->
       IF p = Join(PackageDir, MainPolicy)
       THEN CameraDoc([n \in DetectorNames |-> [id |-> IntScalar(IF n = "R01_S00" THEN 0 ELSE 1)]])
       ELSE Absent]

\* the encoder's inputs are drawn from the bounded sets; the reader is idle
EncoderInit ==
    /\ max_num \in MaxNums
    /\ mode \in Modes
    /\ exposure_id \in ExposureIds
    /\ detector_num \in DetectorNums
    /\ outcome = NoOutcome
    /\ prev = NoCall
    /\ fs = StockFs
    /\ obs_lsst_packageDir = PackageDir
    /\ pc = "idle"
    /\ policyFile = None
    /\ file = None
    /\ openHandles = {}
    /\ pending = None
    /\ camera = None
    /\ mapping = NoRef
    /\ todo = {}
    /\ heap = [o \in ObjIds |-> FreeCell]
    /\ result = NoRef
    /\ raised = None
    /\ held = NotHeld

\* every file holds one of the contents it can have and no call is under
\* way; the encoder's caller stays at one fixed call
ReaderInit ==
    /\ fs \in {[p \in Paths |-> IF p = Join(PackageDir, MainPolicy) THEN c ELSE o] :
                 c \in ContentsOf(Join(PackageDir, MainPolicy)),
                 o \in ContentsOf(Join(PackageDir, OtherPolicy))}
    /\ obs_lsst_packageDir = PackageDir
    /\ pc = "idle"
    /\ policyFile = None
    /\ file = None
    /\ openHandles = {}
    /\ pending = None
    /\ camera = None
    /\ mapping = NoRef
    /\ todo = {}
    /\ heap = [o \in ObjIds |-> FreeCell]
    /\ result = NoRef
    /\ raised = None
    /\ held = NotHeld
    /\ max_num = DefaultMaxNum
    /\ mode = "concat"
    /\ exposure_id = 0
    /\ detector_num = 0
    /\ outcome = NoOutcome
    /\ prev = NoCall

\* the encoder applied to bounded inputs
SpecEncoder == EncoderInit /\ [][EncNext]_vars

\* the reader called again and again while the files change
SpecReader == ReaderInit /\ [][ReaderNext]_vars

\* ================================================================ claims
Called == outcome.kind # "none"

InRange(d) == 0 <= d /\ d < max_num

RECURSIVE DigitCount(_)
DigitCount(n) == IF n < 10 THEN 1 ELSE 1 + DigitCount(n \div 10)

RECURSIVE Pow10(_)
Pow10(k) == IF k = 0 THEN 1 ELSE 10 * Pow10(k - 1)

\* C1: a call whose detector_num is outside 0 <= detector_num < max_num
\* ends in an error and returns no value, whatever the mode.
C1_OutOfRangeFails ==
    (Called /\ ~InRange(detector_num)) => outcome.kind = "error"

\* C2: in mode "concat" and in mode "multiply", two calls with the same
\* max_num, non-negative exposure ids and detector numbers in range both
\* return a value, and equal values come only from equal arguments.
C2_Injective ==
    (/\ mode \in {"concat", "multiply"}
     /\ Called /\ prev.out.kind # "none"
     /\ exposure_id >= 0 /\ prev.e >= 0
     /\ InRange(detector_num) /\ InRange(prev.d))
    => /\ outcome.kind = "value" /\ prev.out.kind = "value"
       /\ (outcome.v = prev.out.v => (exposure_id = prev.e /\ detector_num = prev.d))

\* two valid concat calls whose results would collide without the padding
C2_Witness ==
    /\ mode = "concat" /\ max_num = 12
    /\ prev.out.kind = "value" /\ prev.e = 1 /\ prev.d = 10
    /\ outcome.kind = "value" /\ exposure_id = 11 /\ detector_num = 0
    /\ outcome.v # prev.out.v

\* C3: in mode "concat", for exposure_id >= 0 and detector_num in range, the
\* result is the number written as the digits of exposure_id followed by
\* detector_num zero-padded on the left to as many digits as max_num has;
\* (5000, 5) with max_num 1000 gives 50000005.
C3_ConcatDigits ==
    (mode = "concat" /\ Called /\ exposure_id >= 0 /\ InRange(detector_num))
    => /\ outcome = Returned(exposure_id * Pow10(DigitCount(max_num)) + detector_num)
       /\ exposure_id > 0 =>
            /\ Len(Str(outcome.v)) = DigitCount(exposure_id) + DigitCount(max_num)
            /\ SubSeq(Str(outcome.v), 1, DigitCount(exposure_id)) = Str(exposure_id)
       /\ (exposure_id = 5000 /\ detector_num = 5 /\ max_num = DefaultMaxNum)
            => outcome.v = 50000005

C3_Witness ==
    /\ mode = "concat" /\ max_num = DefaultMaxNum
    /\ exposure_id = 5000 /\ detector_num = 5
    /\ outcome = Returned(50000005)

FourthExample ==
    /\ mode = "concat" /\ max_num = DefaultMaxNum
    /\ exposure_id = 5000 /\ detector_num = 999
    /\ Called

\* C4 as stated: (5000, 999) with max_num 1000 in mode "concat" returns
\* 5000999.
C4_Original == FourthExample => outcome = Returned(5000999)

\* C4 amended: (5000, 999) with max_num 1000 in mode "concat" returns
\* 50000999, the detector number padded to four digits.
C4_Amended == FourthExample => outcome = Returned(50000999)

C4_Witness == FourthExample /\ outcome.kind = "value" /\ outcome.v = 50000999

\* C5: in mode "multiply", for every exposure_id and detector_num in range,
\* the result is max_num * exposure_id + detector_num; (5000, 5) with
\* max_num 1000 gives 5000005.
C5_Multiply ==
    (mode = "multiply" /\ Called /\ InRange(detector_num))
    => /\ outcome = Returned(max_num * exposure_id + detector_num)
       /\ (exposure_id = 5000 /\ detector_num = 5 /\ max_num = DefaultMaxNum)
            => outcome.v = 5000005

C5_Witness ==
    /\ mode = "multiply" /\ max_num = DefaultMaxNum
    /\ exposure_id = 5000 /\ detector_num = 5
    /\ outcome = Returned(5000005)

\* C6 as stated: with a mode other than "concat" and "multiply" every call
\* fails with the "mode not understood" error.
C6_Original ==
    (mode \notin {"concat", "multiply"} /\ Called)
    => outcome = Raised("mode not understood")

\* C6 amended: with a mode other than "concat" and "multiply" every call
\* fails and returns no value; the error is "mode not understood" when
\* detector_num < max_num, and the detector-number error, which is checked
\* first, when detector_num >= max_num.
C6_Amended ==
    (mode \notin {"concat", "multiply"} /\ Called)
    => /\ outcome.kind = "error"
       /\ detector_num < max_num => outcome = Raised("mode not understood")
       /\ detector_num >= max_num => outcome = Raised("detector_num >= max_num")

C6_Witness ==
    /\ mode = "bogus" /\ detector_num = 5 /\ max_num = DefaultMaxNum
    /\ outcome = Raised("mode not understood")

\* --------------------------------------------------------- reader claims
Ended == pc \in {"returned", "raised"}

HasCCDs(c) == c.kind = "yaml" /\ c.top.t = "map" /\ "CCDs" \in DOMAIN c.top.m

CCDsOf(c) == c.top.m["CCDs"]

IntegerValued(x) == x.t = "int" \/ AllDigits(x.s)

IdValue(x) == IF x.t = "int" THEN x.v ELSE DigitsValue(x.s)

WellFormed(rec) == "id" \in DOMAIN rec /\ IntegerValued(rec["id"])

ValidPolicy(c) == HasCCDs(c) /\ \A n \in DOMAIN CCDsOf(c) : WellFormed(CCDsOf(c)[n])

ExpectedIds(c) == [n \in DOMAIN CCDsOf(c) |-> IdValue(CCDsOf(c)[n]["id"])]

LacksId(c) == HasCCDs(c) /\ \E n \in DOMAIN CCDsOf(c) : "id" \notin DOMAIN CCDsOf(c)[n]

\* C7: a call on a valid policy document returns a mapping whose keys are
\* exactly the detector names under "CCDs" and whose values are the
\* integers of the "id" fields, whatever else the records hold.
C7_MappingMatchesDocument ==
    (Ended /\ ValidPolicy(fs[file]))
    => /\ pc = "returned"
       /\ heap[result].live
       /\ DOMAIN heap[result].d = DOMAIN CCDsOf(fs[file])
       /\ \A n \in DOMAIN CCDsOf(fs[file]) :
            heap[result].d[n] = IdValue(CCDsOf(fs[file])[n]["id"])

\* two detectors, one record with a further field, one id written as "07"
C7_Witness ==
    /\ pc = "returned"
    /\ ValidPolicy(fs[file])
    /\ DOMAIN heap[result].d = DetectorNames
    /\ \E n \in DetectorNames : "serial" \in DOMAIN CCDsOf(fs[file])[n]
    /\ \E n \in DetectorNames :
         CCDsOf(fs[file])[n]["id"].t = "str" /\ heap[result].d[n] = 7

\* C8: a call fails with the underlying error, and hands out no mapping,
\* when the file does not exist, when it is not valid YAML, when "CCDs" is
\* absent, and when some record lacks "id" (a KeyError when every other
\* record is well formed).
C8_FailsWithoutMapping ==
    LET c == fs[file]
        bad == \/ c \in {Absent, Malformed}
               \/ (c.kind = "yaml" /\ ~HasCCDs(c))
               \/ LacksId(c)
    IN  (Ended /\ bad)
        => /\ pc = "raised"
           /\ result = NoRef
           /\ \A o \in ObjIds : heap[o].live => o = held.ref
           /\ c = Absent => raised = "FileNotFoundError"
           /\ c = Malformed => raised = "YAMLError"
           /\ (c.kind = "yaml" /\ ~HasCCDs(c)) => raised \in {"KeyError", "TypeError"}
           /\ c = NoCCDsDoc => raised = "KeyError"
           /\ LacksId(c) => raised \in {"KeyError", "ValueError"}
           /\ (LacksId(c) /\ \A n \in DOMAIN CCDsOf(c) :
                               "id" \in DOMAIN CCDsOf(c)[n] => WellFormed(CCDsOf(c)[n]))
                => raised = "KeyError"

\* one record without "id" beside a well-formed one
C8_Witness ==
    /\ pc = "raised" /\ raised = "KeyError" /\ result = NoRef
    /\ HasCCDs(fs[file])
    /\ DOMAIN CCDsOf(fs[file]) = DetectorNames
    /\ \E n \in DetectorNames : WellFormed(CCDsOf(fs[file])[n])
    /\ \E n \in DetectorNames : "id" \notin DOMAIN CCDsOf(fs[file])[n]

\* C9: no handle is open once the with block is left: not while the "CCDs"
\* entries are walked, not after the call has returned or failed; while
\* the block runs the only open handle is the one on the policy file.
C9_HandleReleased ==
    /\ pc \in {"idle", "open", "new_mapping", "items", "loop", "returned", "raised"}
         => openHandles = {}
    /\ pc \in {"load", "exit_with"} => openHandles = {file}

\* a call that failed in the YAML parser
C9_Witness == pc = "raised" /\ raised = "YAMLError" /\ openHandles = {}

\* C10: no step of a call writes a file or the module-level package
\* directory; a mapping the caller holds is not altered by a later call;
\* a call returns a new mapping object built from the content the file has
\* at that call.
C10_Step ==
    /\ obs_lsst_packageDir' = obs_lsst_packageDir
    /\ fs' # fs => (pc = "idle" /\ pc' = "idle")
    /\ (held.ref # NoRef /\ held' = held)
         => heap'[held.ref] = [live |-> TRUE, d |-> held.snap]
    /\ (pc # "returned" /\ pc' = "returned")
         => /\ result' # held.ref
            /\ heap'[result'].d = ExpectedIds(fs[file])

C10_FreshAndFrameSafe == [][C10_Step]_vars

\* a later call has returned a mapping that differs from the one held
C10_Witness ==
    /\ pc = "returned"
    /\ held.ref # NoRef /\ result # held.ref
    /\ heap[held.ref].d = held.snap
    /\ heap[result].d # held.snap
    /\ DOMAIN held.snap = DetectorNames

====
